---- MODULE Spec2Model ----
(***************************************************************************)
(* A model of httpie's CLI argument parsing (src/httpie/cliparse.py):      *)
(* the escape-aware key/value argument parser (KeyValueArgType,            *)
(* AuthCredentialsArgType), the item classifier (parse_items, ParamDict)   *)
(* and the body/credential steps of Parser.parse_args.                     *)
(*                                                                         *)
(* Python strings that are scanned character by character are sequences    *)
(* of one-character strings; keys, paths and contents that are only        *)
(* compared are TLA+ strings.                                              *)
(***************************************************************************)
EXTENDS Integers, Sequences, FiniteSets, TLC

VARIABLES
    string,        \* the argument string handed to an argparse type
    called,        \* which argparse type was called on it
    kv,            \* what the call produced
    items,         \* args.items: the KeyValue items, in command-line order
    form,          \* args.form
    stdin_isatty,  \* env.stdin_isatty
    stdin,         \* what env.stdin.read() returns
    content,       \* path -> what reading the opened file returns
    auth,          \* args.auth
    idx,           \* position of parse_items' for loop (next item)
    headers,       \* args.headers
    data,          \* args.data
    files,         \* args.files
    params,        \* args.params
    pc,            \* position of Parser.parse_args
    error,         \* the error the run ended in, "none" while there is none
    prompted,      \* prompt_password has been called
    stdinRead,     \* env.stdin has been read to its end
    bodyFromFile   \* args.data holds the content of a file item

kvVars == <<string, called, kv>>
argVars == <<items, form, stdin_isatty, stdin, content, auth, idx, headers,
             data, files, params, pc, error, prompted, stdinRead, bodyFromFile>>
vars == <<string, called, kv, items, form, stdin_isatty, stdin, content, auth,
          idx, headers, data, files, params, pc, error, prompted, stdinRead,
          bodyFromFile>>

----------------------------------------------------------------------------
(* Bounds *)

MaxLen == 6

Alphabet == {"a", "\\", ":", "=", "@"}

Strings == UNION {[1..n -> Alphabet] : n \in 0..MaxLen}

----------------------------------------------------------------------------
(* Separators *)

SEP_COMMON == <<":">>
SEP_HEADERS == SEP_COMMON
SEP_DATA == <<"=">>
SEP_DATA_RAW_JSON == <<":", "=">>
SEP_FILES == <<"@">>
SEP_QUERY == <<"=", "=">>

\* The separators the item type is built with, in the order of _guess_method.
ItemSeparators == <<SEP_COMMON, SEP_QUERY, SEP_DATA, SEP_DATA_RAW_JSON, SEP_FILES>>

\* None, as a value no string equals (the empty string included).
None == <<"None">>

----------------------------------------------------------------------------
(* KeyValueArgType.__call__ *)

Literal(text) == [escaped |-> FALSE, text |-> text]
Escaped(c) == [escaped |-> TRUE, text |-> <<c>>]

\* A tokenizer that forgets to clear the escape flag.
TokStepStuck(st, c) ==
    IF st.esc
    THEN [tokens |-> st.tokens \o <<Escaped(c), Literal(<<>>)>>, esc |-> TRUE]
    ELSE IF c = "\\"
         THEN [st EXCEPT !.esc = TRUE]
         ELSE [st EXCEPT !.tokens[Len(st.tokens)].text = @ \o <<c>>]

\* One iteration of tokenize's loop over the characters.
TokStep(st, c) ==
    IF st.esc
    THEN [tokens |-> st.tokens \o <<Escaped(c), Literal(<<>>)>>, esc |-> FALSE]
    ELSE IF c = "\\"
         THEN [st EXCEPT !.esc = TRUE]
         ELSE [st EXCEPT !.tokens[Len(st.tokens)].text = @ \o <<c>>]

RECURSIVE TokLoop(_, _)
TokLoop(s, n) ==
    IF n = 0
    THEN [tokens |-> <<Literal(<<>>)>>, esc |-> FALSE]
    ELSE TokStep(TokLoop(s, n - 1), s[n])

\* tokenize returns the tokens; the escape flag left at the end is not used.
tokenize(s) == TokLoop(s, Len(s)).tokens

\* The separators in the order given, not sorted.
sortedNot(seps) == seps

\* sorted(self.separators, key=len): a stable sort by length.
RECURSIVE sorted(_)
sorted(seps) ==
    IF seps = <<>> THEN <<>>
    ELSE LET rest == sorted(Tail(seps))
             x == Head(seps)
             k == Cardinality({j \in 1..Len(rest) : Len(rest[j]) < Len(x)})
         IN SubSeq(rest, 1, k) \o <<x>> \o SubSeq(rest, k + 1, Len(rest))

\* str.find: the 0-based index of the first occurrence, -1 when there is none.
find(token, sep) ==
    LET at == {p \in 0..(Len(token) - Len(sep)) :
                  SubSeq(token, p + 1, p + Len(sep)) = sep}
    IN IF at = {} THEN -1 ELSE CHOOSE p \in at : \A q \in at : p <= q

\* The found dictionary after the first n separators: a set of <<pos, sep>>,
\* a later separator overwriting an earlier one at the same position.
RECURSIVE foundLoop(_, _, _)
foundLoop(token, seps, n) ==
    IF n = 0 THEN {}
    ELSE LET prev == foundLoop(token, seps, n - 1)
             pos == find(token, seps[n])
         IN IF pos # -1
            THEN {e \in prev : e[1] # pos} \cup {<<pos, seps[n]>>}
            ELSE prev

found(token, seps) == foundLoop(token, seps, Len(seps))

\* ''.join(tokens)
RECURSIVE join(_)
join(tokens) ==
    IF tokens = <<>> THEN <<>> ELSE Head(tokens).text \o join(Tail(tokens))

NoKeyValue ==
    [status |-> "none", key |-> <<>>, value |-> <<>>, sep |-> <<>>,
     orig |-> <<>>, tokens |-> <<>>, i |-> 0, pos |-> 0]

\* KeyValueArgType(*separators).__call__(string): the KeyValue it returns
\* (with the tokens, the token index and the position of the split), or the
\* ArgumentTypeError it raises.
KeyValueArgType_call(separators, s) ==
    LET tokens == tokenize(s)
        seps == sorted(separators)
        hits == {i \in 1..Len(tokens) :
                    ~tokens[i].escaped /\ found(tokens[i].text, seps) # {}}
    IN IF hits = {}
       THEN [NoKeyValue EXCEPT !.status = "ArgumentTypeError", !.orig = s,
                               !.tokens = tokens]
       ELSE LET i == CHOOSE i \in hits : \A j \in hits : i <= j
                token == tokens[i].text
                fnd == found(token, seps)
                e == CHOOSE e \in fnd : \A o \in fnd : e[1] <= o[1]
                sep == e[2]
                at == find(token, sep)
                left == SubSeq(token, 1, at)
                right == SubSeq(token, at + Len(sep) + 1, Len(token))
            IN [status |-> "ok",
                key |-> join(SubSeq(tokens, 1, i - 1)) \o left,
                value |-> right \o join(SubSeq(tokens, i + 1, Len(tokens))),
                sep |-> sep, orig |-> s, tokens |-> tokens, i |-> i, pos |-> at]

\* The fallback with an empty password in place of None.
AuthFallbackEmpty(s) ==
    [NoKeyValue EXCEPT !.status = "ok", !.key = s, !.value = <<>>,
                       !.sep = SEP_COMMON, !.orig = s]

\* AuthCredentialsArgType.__call__'s except branch.
AuthFallback(s) ==
    [NoKeyValue EXCEPT !.status = "ok", !.key = s, !.value = None,
                       !.sep = SEP_COMMON, !.orig = s]

AuthCredentialsArgType_call(separators, s) ==
    LET r == KeyValueArgType_call(separators, s)
    IN IF r.status = "ArgumentTypeError"
       THEN [AuthFallback(s) EXCEPT !.tokens = r.tokens]
       ELSE r

\* AuthCredentials.has_password
has_password(a) == a.value # None

----------------------------------------------------------------------------
(* Python values held by the buckets: a string, a JSON number, a list, an   *)
(* open file. One record shape for all of them.                             *)

Str(x) == [t |-> "str", s |-> x, l |-> <<>>]
Num(x) == [t |-> "int", s |-> x, l |-> <<>>]
List(xs) == [t |-> "list", s |-> "", l |-> xs]
File(name) == [t |-> "file", s |-> name, l |-> <<>>]

\* isinstance(v, list)
IsList(v) == v.t = "list"

\* A KeyValue item (orig, used in messages only, is left out).
Item(key, sep, value) == [key |-> key, sep |-> sep, value |-> value]

\* A separator no bucket is chosen for.
SEP_OTHER == <<";">>

\* json.loads on the item values of the model: '1', '[1]', and 'x', which is
\* no JSON.
JsonLoads(text) ==
    CASE text = "1" -> [ok |-> TRUE, v |-> Num("1")]
      [] text = "[1]" -> [ok |-> TRUE, v |-> List(<<Num("1")>>)]
      [] OTHER -> [ok |-> FALSE, v |-> Str(text)]

\* The paths of the model; "/nofile" cannot be opened.
Paths == {"~/f.txt", "/b/f.txt"}

\* os.path.expanduser
ExpandUser(path) == IF path = "~/f.txt" THEN "/home/f.txt" ELSE path

Names == {ExpandUser(p) : p \in Paths}

\* os.path.basename
Basename(name) ==
    CASE name = "/home/f.txt" -> "f.txt"
      [] name = "/b/f.txt" -> "f.txt"
      [] OTHER -> name

\* mimetypes.guess_type(name, strict=False)
GuessType(name) ==
    IF name \in {"/home/f.txt", "/b/f.txt"}
    THEN [mime |-> "text/plain", encoding |-> ""]
    ELSE [mime |-> "", encoding |-> ""]

DEFAULT_UA == "HTTPie/version"

----------------------------------------------------------------------------
(* Dictionaries: the entries [k, v] in insertion order *)

Entry(k, v) == [k |-> k, v |-> v]

DictHas(d, k) == \E j \in 1..Len(d) : d[j].k = k

DictGet(d, k) == d[CHOOSE j \in 1..Len(d) : d[j].k = k].v

\* dict.__setitem__ / OrderedDict.__setitem__
DictSet(d, k, v) ==
    IF DictHas(d, k)
    THEN [j \in 1..Len(d) |-> IF d[j].k = k THEN Entry(k, v) ELSE d[j]]
    ELSE Append(d, Entry(k, v))

\* str.lower on the keys of the model.
Lower(k) ==
    CASE k = "User-Agent" -> "user-agent"
      [] k = "Content-Type" -> "content-type"
      [] OTHER -> k

\* CaseInsensitiveDict: keys are compared in lower case; an assignment
\* replaces the entry of the key and keeps the key as last written.
CIHas(d, k) == \E j \in 1..Len(d) : Lower(d[j].k) = Lower(k)

CIGet(d, k) == d[CHOOSE j \in 1..Len(d) : Lower(d[j].k) = Lower(k)].v

CISet(d, k, v) ==
    IF CIHas(d, k)
    THEN [j \in 1..Len(d) |-> IF Lower(d[j].k) = Lower(k) THEN Entry(k, v) ELSE d[j]]
    ELSE Append(d, Entry(k, v))

\* ParamDict.__setitem__
ParamDict_setitem(d, k, v) ==
    IF ~DictHas(d, k)
    THEN DictSet(d, k, v)
    ELSE LET cur == DictGet(d, k)
             lst == IF ~IsList(cur) THEN List(<<cur>>) ELSE cur
         IN DictSet(d, k, List(Append(lst.l, v)))

\* args.data: a dictionary while the items are parsed, a string once a body
\* has been read into it.
DataDict(d) == [str |-> FALSE, s |-> "", d |-> d]
DataStr(text) == [str |-> TRUE, s |-> text, d |-> <<>>]

\* bool(args.data)
Truthy(dat) == IF dat.str THEN dat.s # "" ELSE dat.d # <<>>

----------------------------------------------------------------------------
(* parse_items *)

ERR_ITEM == "ParseError: is not valid item"
ERR_JSON == "ParseError: is not valid JSON"
ERR_OPEN == "ParseError: Invalid argument"
ERR_DUPLICATE == "ParseError: duplicate item"
ERR_FILES == "Only one file can be specified unless --form is used"
ERR_MIXED == "Request body (from stdin or a file) and request data (key=value) cannot be mixed"

\* '==' items routed to the data bucket.
targetOfQueryAsData(sep) ==
    CASE sep = SEP_HEADERS -> "headers"
      [] sep = SEP_QUERY -> "data"
      [] sep = SEP_FILES -> "files"
      [] sep \in {SEP_DATA, SEP_DATA_RAW_JSON} -> "data"
      [] OTHER -> "none"

\* The if/elif chain on item.sep: the bucket that becomes the target.
targetOf(sep) ==
    CASE sep = SEP_HEADERS -> "headers"
      [] sep = SEP_QUERY -> "params"
      [] sep = SEP_FILES -> "files"
      [] sep \in {SEP_DATA, SEP_DATA_RAW_JSON} -> "data"
      [] OTHER -> "none"

\* The duplicate error, raised.
duplicateRaised(present) == IF present THEN ERR_DUPLICATE ELSE "none"

\* `if key in target: ParseError(...)`: the error is built and dropped.
duplicate(present) == "none"

\* One iteration of the loop, up to the assignment: the target, the key and
\* the value to assign, or the ParseError raised. fs is the set of names that
\* open() can open.
classify(item, fs) ==
    LET target == targetOf(item.sep)
        name == ExpandUser(item.value)
        json == JsonLoads(item.value)
        none == [err |-> "none", target |-> target, key |-> item.key,
                 value |-> Str(item.value)]
    IN CASE target = "files" ->
              IF name \notin fs
              THEN [none EXCEPT !.err = ERR_OPEN]
              ELSE [none EXCEPT !.value = File(name),
                                !.key = IF item.key = "" THEN Basename(name)
                                        ELSE item.key]
         [] target = "data" /\ item.sep = SEP_DATA_RAW_JSON ->
              IF ~json.ok
              THEN [none EXCEPT !.err = ERR_JSON]
              ELSE [none EXCEPT !.value = json.v]
         [] target = "none" -> [none EXCEPT !.err = ERR_ITEM]
         [] OTHER -> none

\* `key in target`
inTarget(c) ==
    CASE c.target = "headers" -> CIHas(headers, c.key)
      [] c.target = "params" -> DictHas(params, c.key)
      [] c.target = "files" -> DictHas(files, c.key)
      [] c.target = "data" -> DictHas(data.d, c.key)
      [] OTHER -> FALSE

\* One iteration of parse_items' loop over the items.
parse_items ==
    /\ pc = "parse_items"
    /\ idx <= Len(items)
    /\ LET c == classify(items[idx], Names)
           err == IF c.err # "none" THEN c.err ELSE duplicate(inTarget(c))
       IN IF err # "none"
          THEN /\ error' = err
               /\ pc' = "error"
               /\ UNCHANGED <<idx, headers, data, files, params>>
          ELSE /\ headers' = IF c.target = "headers"
                             THEN CISet(headers, c.key, c.value) ELSE headers
               /\ params' = IF c.target = "params"
                            THEN ParamDict_setitem(params, c.key, c.value)
                            ELSE params
               /\ files' = IF c.target = "files"
                           THEN DictSet(files, c.key, c.value) ELSE files
               /\ data' = IF c.target = "data"
                          THEN DataDict(IF form
                                        THEN ParamDict_setitem(data.d, c.key, c.value)
                                        ELSE DictSet(data.d, c.key, c.value))
                          ELSE data
               /\ idx' = idx + 1
               /\ UNCHANGED <<pc, error>>
    /\ UNCHANGED <<kvVars, items, form, stdin_isatty, stdin, content, auth,
                   prompted, stdinRead, bodyFromFile>>

\* parse_items returns: every item has been classified.
parse_items_return ==
    /\ pc = "parse_items"
    /\ idx > Len(items)
    /\ pc' = "files"
    /\ UNCHANGED <<kvVars, items, form, stdin_isatty, stdin, content, auth, idx,
                   headers, data, files, params, error, prompted, stdinRead,
                   bodyFromFile>>

----------------------------------------------------------------------------
(* Parser *)

\* Parser._body_from_file: the error, or the new args.data.
body_from_file(dat, text) ==
    IF Truthy(dat)
    THEN [err |-> ERR_MIXED, data |-> dat]
    ELSE [err |-> "none", data |-> DataStr(text)]

\* Parser._parse_items after parse_items has returned: a file given without
\* --form becomes the body.
Parser_parse_items_files ==
    /\ pc = "files"
    /\ IF files # <<>> /\ ~form
       THEN IF Len(files) > 1
            THEN /\ error' = ERR_FILES
                 /\ pc' = "error"
                 /\ UNCHANGED <<headers, data, files, bodyFromFile>>
            ELSE LET f == files[1].v
                     b == body_from_file(data, content[f.s])
                     guess == GuessType(f.s)
                     \* no name of the model has an encoding, so the
                     \* '%s; charset=%s' form is never built
                     content_type == guess.mime
                 IN IF b.err # "none"
                    THEN /\ error' = b.err
                         /\ pc' = "error"
                         /\ UNCHANGED <<headers, data, files, bodyFromFile>>
                    ELSE /\ data' = b.data
                         /\ bodyFromFile' = TRUE
                         /\ files' = <<>>
                         /\ headers' =
                               IF ~CIHas(headers, "Content-Type") /\ guess.mime # ""
                               THEN CISet(headers, "Content-Type", Str(content_type))
                               ELSE headers
                         /\ pc' = "stdin"
                         /\ UNCHANGED error
       ELSE /\ pc' = "stdin"
            /\ UNCHANGED <<headers, data, files, bodyFromFile, error>>
    /\ UNCHANGED <<kvVars, items, form, stdin_isatty, stdin, content, auth, idx,
                   params, prompted, stdinRead>>

\* parse_args: `if not env.stdin_isatty: self._body_from_file(args, env.stdin)`
Parser_parse_args_stdin ==
    /\ pc = "stdin"
    /\ IF ~stdin_isatty
       THEN LET b == body_from_file(data, stdin)
            IN IF b.err # "none"
               THEN /\ error' = b.err
                    /\ pc' = "error"
                    /\ UNCHANGED <<data, stdinRead>>
               ELSE /\ data' = b.data
                    /\ stdinRead' = TRUE
                    /\ pc' = "auth"
                    /\ UNCHANGED error
       ELSE /\ pc' = "auth"
            /\ UNCHANGED <<data, stdinRead, error>>
    /\ UNCHANGED <<kvVars, items, form, stdin_isatty, stdin, content, auth, idx,
                   headers, files, params, prompted, bodyFromFile>>

\* args.auth is given (it is None without --auth).
AuthGiven(a) == a.status = "ok"

\* Prompting for every credential, with a password or without.
shouldPromptAlways(a) == AuthGiven(a)

\* `args.auth and not args.auth.has_password()`
shouldPrompt(a) == AuthGiven(a) /\ ~has_password(a)

\* What getpass can return, or the EOFError / KeyboardInterrupt it raises.
Typed == {<<>>, <<"a">>}

\* parse_args: the prompt for the password, and the return.
Parser_parse_args_auth ==
    /\ pc = "auth"
    /\ IF shouldPrompt(auth)
       THEN /\ prompted' = TRUE
            /\ \E outcome \in Typed \cup {None} :
                  IF outcome = None
                  THEN pc' = "exit" /\ UNCHANGED auth
                  ELSE pc' = "done" /\ auth' = [auth EXCEPT !.value = outcome]
       ELSE /\ pc' = "done"
            /\ UNCHANGED <<auth, prompted>>
    /\ UNCHANGED <<kvVars, items, form, stdin_isatty, stdin, content, idx,
                   headers, data, files, params, error, stdinRead, bodyFromFile>>

----------------------------------------------------------------------------
(* Runs of parse_items and of parse_args *)

MaxItems == 3

MaxArgs == 2

\* The items a run draws from: per separator, keys that repeat and values
\* that differ; file items with equal keys, with empty keys whose paths share
\* a base name, and one whose path cannot be opened.
ItemSet ==
    {Item("user-agent", SEP_HEADERS, "x"), Item("User-Agent", SEP_HEADERS, "1"),
     Item("Content-Type", SEP_HEADERS, "x"),
     Item("k", SEP_QUERY, "x"), Item("k", SEP_QUERY, "1"),
     Item("k", SEP_DATA, "x"), Item("k", SEP_DATA, "1"),
     Item("k", SEP_DATA_RAW_JSON, "1"), Item("k", SEP_DATA_RAW_JSON, "[1]"),
     Item("k", SEP_DATA_RAW_JSON, "x"),
     Item("", SEP_FILES, "~/f.txt"), Item("", SEP_FILES, "/b/f.txt"),
     Item("k", SEP_FILES, "~/f.txt"), Item("k", SEP_FILES, "/nofile"),
     Item("k", SEP_OTHER, "x")}

ItemSeqs(n) == UNION {[1..m -> ItemSet] : m \in 0..n}

\* Parser._parse_items up to its call of parse_items: the buckets as built.
BucketsBuilt ==
    /\ headers = <<Entry("User-Agent", Str(DEFAULT_UA))>>
    /\ data = DataDict(<<>>)
    /\ files = <<>>
    /\ params = <<>>
    /\ idx = 1
    /\ pc = "parse_items"
    /\ error = "none"

KvIdle == string = <<>> /\ called = "none" /\ kv = NoKeyValue

\* parse_items as Parser._parse_items calls it, with and without --form.
InitItems ==
    /\ KvIdle
    /\ items \in ItemSeqs(MaxItems)
    /\ form \in BOOLEAN
    /\ stdin_isatty = TRUE /\ stdin = ""
    /\ content = [n \in Names |-> "A"]
    /\ auth = NoKeyValue
    /\ BucketsBuilt
    /\ prompted = FALSE /\ stdinRead = FALSE /\ bodyFromFile = FALSE

NextItems == parse_items \/ parse_items_return

SpecItems == InitItems /\ [][NextItems]_vars

\* The --auth arguments of the model: none, a user alone, a user and a
\* password.
AuthArgs ==
    {NoKeyValue,
     AuthCredentialsArgType_call(<<SEP_COMMON>>, <<"a">>),
     AuthCredentialsArgType_call(<<SEP_COMMON>>, <<"a", ":", "a">>)}

\* parse_args from its call of _parse_items on: any items, a terminal or a
\* pipe as stdin, a file that is empty or not.
InitArgs ==
    /\ KvIdle
    /\ items \in ItemSeqs(MaxArgs)
    /\ form \in BOOLEAN
    /\ stdin_isatty \in BOOLEAN
    /\ stdin \in (IF stdin_isatty THEN {""} ELSE {"", "S"})
    /\ content \in {[n \in Names |-> IF n = "/home/f.txt" THEN c ELSE "B"] :
                        c \in {"", "A"}}
    /\ auth \in AuthArgs
    /\ BucketsBuilt
    /\ prompted = FALSE /\ stdinRead = FALSE /\ bodyFromFile = FALSE

NextArgs ==
    \/ parse_items
    \/ parse_items_return
    \/ Parser_parse_items_files
    \/ Parser_parse_args_stdin
    \/ Parser_parse_args_auth

SpecArgs == InitArgs /\ [][NextArgs]_vars

----------------------------------------------------------------------------
(* The argparse types, called on one argument string *)

\* The state of a run of parse_args that has not been started.
ArgsIdle ==
    /\ items = <<>> /\ form = FALSE /\ stdin_isatty = TRUE /\ stdin = ""
    /\ content = [n \in Names |-> ""] /\ auth = NoKeyValue /\ idx = 1
    /\ headers = <<>> /\ data = DataDict(<<>>)
    /\ files = <<>> /\ params = <<>>
    /\ pc = "idle" /\ error = "none" /\ prompted = FALSE
    /\ stdinRead = FALSE /\ bodyFromFile = FALSE

InitKV ==
    /\ string \in Strings
    /\ called = "none"
    /\ kv = NoKeyValue
    /\ ArgsIdle

\* An item argument: KeyValueArgType built with the five item separators.
CallKeyValue ==
    /\ called = "none"
    /\ called' = "KeyValueArgType"
    /\ kv' = KeyValueArgType_call(ItemSeparators, string)
    /\ UNCHANGED <<string, argVars>>

\* The --auth argument: AuthCredentialsArgType built with ':' alone.
CallAuth ==
    /\ called = "none"
    /\ called' = "AuthCredentialsArgType"
    /\ kv' = AuthCredentialsArgType_call(<<SEP_COMMON>>, string)
    /\ UNCHANGED <<string, argVars>>

NextKV == CallKeyValue \/ CallAuth

SpecKV == InitKV /\ [][NextKV]_vars

----------------------------------------------------------------------------
(* Reading a string by position, independently of the tokenizer *)

\* The number of consecutive backslashes that directly precede position p.
RECURSIVE BackslashRun(_, _)
BackslashRun(s, p) ==
    IF p > 1 /\ s[p - 1] = "\\" THEN 1 + BackslashRun(s, p - 1) ELSE 0

Unescaped(s, p) == BackslashRun(s, p) % 2 = 0

\* A backslash that escapes: one at an unescaped position.
EscapingBackslash(s, p) == s[p] = "\\" /\ Unescaped(s, p)

\* The first n characters of s with every escaping backslash removed.
RECURSIVE DecodeUpTo(_, _)
DecodeUpTo(s, n) ==
    IF n = 0 THEN <<>>
    ELSE IF EscapingBackslash(s, n)
         THEN DecodeUpTo(s, n - 1)
         ELSE DecodeUpTo(s, n - 1) \o <<s[n]>>

Decoded(s) == DecodeUpTo(s, Len(s))

OccursAt(s, p, sep) ==
    /\ p + Len(sep) - 1 <= Len(s)
    /\ SubSeq(s, p, p + Len(sep) - 1) = sep

SeqRange(q) == {q[j] : j \in 1..Len(q)}

\* The unescaped occurrences <<position, separator>> of the separators in s.
Occurrences(s, seps) ==
    {o \in (1..Len(s)) \X SeqRange(seps) :
        OccursAt(s, o[1], o[2]) /\ Unescaped(s, o[1])}

\* The occurrence that starts first and, among those, is the longest.
FirstLongest(occ) ==
    CHOOSE o \in occ :
        \A x \in occ : o[1] < x[1] \/ (o[1] = x[1] /\ Len(o[2]) >= Len(x[2]))

\* The raw length of a token: an escaped character stands for two.
RECURSIVE RawLen(_)
RawLen(tokens) ==
    IF tokens = <<>> THEN 0
    ELSE (IF Head(tokens).escaped THEN 2 ELSE Len(Head(tokens).text))
         + RawLen(Tail(tokens))

\* The position in the string where the separator of the result starts.
SplitAt(r) == RawLen(SubSeq(r.tokens, 1, r.i - 1)) + r.pos + 1

Suffix(s, p) == SubSeq(s, p, Len(s))

----------------------------------------------------------------------------
(* C1 *)

\* C1: KeyValueArgType built with ':', '==', '=', ':=', '@' splits at the
\* unescaped separator occurrence that starts first in the string and, among
\* the separators that start there, at the longest; sep is that separator,
\* key is the text before it and value the text after it, each with its
\* escaping backslashes removed; a string with no unescaped occurrence
\* raises ArgumentTypeError.
C1_FirstLongestSplit ==
    called = "KeyValueArgType" =>
        LET occ == Occurrences(string, ItemSeparators)
        IN IF occ = {}
           THEN kv.status = "ArgumentTypeError"
           ELSE LET o == FirstLongest(occ)
                IN /\ kv.status = "ok"
                   /\ kv.sep = o[2]
                   /\ kv.key = Decoded(SubSeq(string, 1, o[1] - 1))
                   /\ kv.value = Decoded(Suffix(string, o[1] + Len(o[2])))
                   /\ kv.orig = string

\* A string where '=' and '==' start at the same place, behind an escaped
\* separator, has been split at '=='.
C1_Witness ==
    /\ called = "KeyValueArgType"
    /\ string = <<"\\", ":", "a", "=", "=">>
    /\ kv.status = "ok"
    /\ kv.sep = SEP_QUERY
    /\ kv.key = <<":", "a">>

----------------------------------------------------------------------------
(* C2 *)

SepChars == {":", "=", "@"}

\* Where the character at position q of s lands once the escaping
\* backslashes before it are removed.
DecodedIndex(s, q) == Len(DecodeUpTo(s, q))

\* C2: a separator character directly preceded by an odd number of
\* backslashes is never part of the chosen separator and stands as a literal
\* character in the key (when it is before the split) or in the value (when
\* it is after); one preceded by an even number of backslashes is eligible,
\* so the string is split at it or before it, and the separator chosen has an
\* even number 2k of backslashes before it, which are the last k characters
\* of the key.
C2_EscapeParity ==
    called = "KeyValueArgType" =>
        /\ \A q \in 1..Len(string) :
              (string[q] \in SepChars /\ ~Unescaped(string, q) /\ kv.status = "ok") =>
                  LET p == SplitAt(kv)
                      after == p + Len(kv.sep)
                  IN /\ ~(p <= q /\ q < after)
                     /\ q < p =>
                          /\ DecodedIndex(string, q) <= Len(kv.key)
                          /\ kv.key[DecodedIndex(string, q)] = string[q]
                     /\ q >= after =>
                          LET j == DecodedIndex(Suffix(string, after), q - after + 1)
                          IN j <= Len(kv.value) /\ kv.value[j] = string[q]
        /\ \A q \in 1..Len(string) :
              (string[q] \in SepChars /\ Unescaped(string, q)) =>
                  kv.status = "ok" /\ SplitAt(kv) <= q
        /\ kv.status = "ok" =>
              LET p == SplitAt(kv)
                  run == BackslashRun(string, p)
              IN /\ string[p] \in SepChars
                 /\ run % 2 = 0
                 /\ Len(kv.key) >= run \div 2
                 /\ \A j \in 1..(run \div 2) : kv.key[Len(kv.key) - j + 1] = "\\"

\* '\=\\=' has been split at its second '=': the first one is escaped and is
\* the first character of the key, the backslash pair is one backslash.
C2_Witness ==
    /\ called = "KeyValueArgType"
    /\ string = <<"\\", "=", "\\", "\\", "=">>
    /\ kv.status = "ok"
    /\ kv.sep = SEP_DATA
    /\ kv.key = <<"=", "\\">>
    /\ kv.value = <<>>

----------------------------------------------------------------------------
(* C3 *)

EndsInLoneBackslash(s) ==
    Len(s) > 0 /\ s[Len(s)] = "\\" /\ Unescaped(s, Len(s))

EndsWithBackslash(q) == Len(q) > 0 /\ q[Len(q)] = "\\"

\* C3: for a string that ends in a lone backslash tokenize raises nothing and
\* keeps that backslash as a literal one: it is the last character of the
\* last literal token, and so the parsed value ends with it.
C3_TrailingBackslashLiteral ==
    (called = "KeyValueArgType" /\ EndsInLoneBackslash(string)) =>
        /\ kv.status \in {"ok", "ArgumentTypeError"}
        /\ LET last == kv.tokens[Len(kv.tokens)]
           IN ~last.escaped /\ EndsWithBackslash(last.text)
        /\ kv.status = "ok" => EndsWithBackslash(kv.value)

----------------------------------------------------------------------------
(* C8 *)

\* C8: AuthCredentialsArgType built with ':' alone returns, for a string with
\* an unescaped ':', the key and value split at the first such ':' (the value
\* is a string, '' when nothing follows the ':', and has_password() is true);
\* for a string with no unescaped ':' it returns the whole original string as
\* key, None (not '') as value, ':' as sep, and has_password() is false.
C8_AuthSplitOrNone ==
    called = "AuthCredentialsArgType" =>
        LET occ == Occurrences(string, <<SEP_COMMON>>)
        IN /\ kv.status = "ok"
           /\ kv.sep = SEP_COMMON
           /\ kv.orig = string
           /\ IF occ = {}
              THEN /\ kv.key = string
                   /\ kv.value = None
                   /\ kv.value # <<>>
                   /\ ~has_password(kv)
              ELSE LET o == FirstLongest(occ)
                   IN /\ kv.key = Decoded(SubSeq(string, 1, o[1] - 1))
                      /\ kv.value = Decoded(Suffix(string, o[1] + 1))
                      /\ kv.value # None
                      /\ o[1] = Len(string) => kv.value = <<>>
                      /\ has_password(kv)

\* 'a\:' has no unescaped ':': the key is the string as given, backslash
\* included, and there is no password.
C8_Witness ==
    /\ called = "AuthCredentialsArgType"
    /\ string = <<"a", "\\", ":">>
    /\ kv.key = <<"a", "\\", ":">>
    /\ kv.value = None
    /\ ~has_password(kv)

----------------------------------------------------------------------------
(* C4 *)

RecognizedSeps ==
    {SEP_HEADERS, SEP_QUERY, SEP_DATA, SEP_DATA_RAW_JSON, SEP_FILES}

\* Key k of dictionary d has just been assigned v: d holds v under k, or,
\* for a ParamDict, a list that ends with v.
AssignedTo(d, k, v) ==
    /\ DictHas(d, k)
    /\ LET cur == DictGet(d, k)
       IN cur = v \/ (IsList(cur) /\ Len(cur.l) > 0 /\ cur.l[Len(cur.l)] = v)

\* The file an '@' item names, opened.
FileOf(item) == File(ExpandUser(item.value))

\* The key an item is stored under: an '@' item with an empty key takes the
\* base name of its file.
KeyOf(item) ==
    IF item.sep = SEP_FILES /\ item.key = ""
    THEN Basename(ExpandUser(item.value)) ELSE item.key

\* C4: every iteration of parse_items either assigns the item to the one
\* bucket its separator names (':' headers, '==' params, '=' and ':=' data,
\* '@' files) and leaves the other three buckets unchanged, or raises
\* ParseError and changes no bucket; an item whose separator is none of the
\* five always raises ParseError.
C4_OneBucketPerItem ==
    [][(pc = "parse_items" /\ idx <= Len(items)) =>
         LET item == items[idx]
         IN \/ /\ pc' = "error"
               /\ error' \in {ERR_ITEM, ERR_JSON, ERR_OPEN}
               /\ item.sep \notin RecognizedSeps => error' = ERR_ITEM
               /\ UNCHANGED <<headers, data, files, params>>
            \/ /\ pc' = "parse_items" /\ error' = "none" /\ idx' = idx + 1
               /\ item.sep \in RecognizedSeps
               /\ CASE item.sep = SEP_HEADERS ->
                         /\ UNCHANGED <<data, files, params>>
                         /\ CIHas(headers', item.key)
                         /\ CIGet(headers', item.key) = Str(item.value)
                    [] item.sep = SEP_QUERY ->
                         /\ UNCHANGED <<headers, data, files>>
                         /\ AssignedTo(params', item.key, Str(item.value))
                    [] item.sep = SEP_DATA ->
                         /\ UNCHANGED <<headers, files, params>>
                         /\ AssignedTo(data'.d, item.key, Str(item.value))
                    [] item.sep = SEP_DATA_RAW_JSON ->
                         /\ UNCHANGED <<headers, files, params>>
                         /\ AssignedTo(data'.d, item.key, JsonLoads(item.value).v)
                    [] item.sep = SEP_FILES ->
                         /\ UNCHANGED <<headers, data, params>>
                         /\ AssignedTo(files', KeyOf(item), FileOf(item))
      ]_vars

\* A '==' item has gone to params alone, and the item after it, whose
\* separator is none of the five, has ended the run in ParseError.
C4_Witness ==
    /\ pc = "error"
    /\ error = ERR_ITEM
    /\ idx = 2
    /\ items[1].sep = SEP_QUERY
    /\ items[2].sep = SEP_OTHER
    /\ params = <<Entry("k", Str(items[1].value))>>
    /\ files = <<>>
    /\ data.d = <<>>
    /\ Len(headers) = 1

----------------------------------------------------------------------------
(* C5 *)

\* The value an item assigns.
ValueOf(item) ==
    CASE item.sep = SEP_FILES -> FileOf(item)
      [] item.sep = SEP_DATA_RAW_JSON -> JsonLoads(item.value).v
      [] OTHER -> Str(item.value)

\* The values assigned so far under key k by the items with a separator in
\* seps, in the order of the items.
RECURSIVE AssignedUpTo(_, _, _)
AssignedUpTo(n, seps, k) ==
    IF n = 0 THEN <<>>
    ELSE LET before == AssignedUpTo(n - 1, seps, k)
         IN IF items[n].sep \in seps /\ KeyOf(items[n]) = k
            THEN Append(before, ValueOf(items[n]))
            ELSE before

Assigned(seps, k) == AssignedUpTo(idx - 1, seps, k)

ItemKeys == {KeyOf(items[j]) : j \in 1..Len(items)}

\* C5: after n >= 2 assignments of v1..vn to one key of a ParamDict (params,
\* and data with --form, where a ':=' item may carry a JSON array) the value
\* under the key is the list [v1, ..., vn].
C5_ParamDictKeepsAll ==
    \A k \in ItemKeys :
        /\ LET vs == Assigned({SEP_QUERY}, k)
           IN Len(vs) >= 2 => DictGet(params, k) = List(vs)
        /\ form =>
              LET vs == Assigned({SEP_DATA, SEP_DATA_RAW_JSON}, k)
              IN Len(vs) >= 2 => DictGet(data.d, k) = List(vs)

----------------------------------------------------------------------------
(* C9 *)

\* The last item so far with a separator in seps whose key, compared through
\* norm, is k; 0 when there is none.
LastUnder(seps, norm(_), k) ==
    LET js == {j \in 1..(idx - 1) :
                  items[j].sep \in seps /\ norm(KeyOf(items[j])) = norm(k)}
    IN IF js = {} THEN 0 ELSE CHOOSE j \in js : \A i \in js : i <= j

Same(k) == k

\* Bucket d holds one entry per key (compared through norm) that an item
\* with a separator in seps, or the preset, gave it, and its value is the
\* value of the last such item.
LastWins(d, seps, norm(_), preset) ==
    /\ \A a, b \in 1..Len(d) : norm(d[a].k) = norm(d[b].k) => a = b
    /\ \A a \in 1..Len(d) :
          LET j == LastUnder(seps, norm, d[a].k)
          IN IF j = 0 THEN <<d[a]>> = preset ELSE d[a].v = ValueOf(items[j])
    /\ \A j \in 1..(idx - 1) :
          items[j].sep \in seps =>
              \E a \in 1..Len(d) : norm(d[a].k) = norm(KeyOf(items[j]))

----------------------------------------------------------------------------
(* C6 *)

\* C6: prompt_password is called only when credentials were given without a
\* password; when stdin is not a terminal, only after stdin has been read in
\* full into the request body; and never in a run where an earlier step
\* (item parsing, file body, stdin body) ended in an error.
C6_PromptAfterStdin ==
    /\ [][(prompted' /\ ~prompted) =>
            /\ AuthGiven(auth)
            /\ ~has_password(auth)
            /\ ~stdin_isatty => (stdinRead /\ data = DataStr(stdin))
            /\ error = "none"
            /\ pc' # "error"]_vars
    /\ [](pc = "error" => ~prompted)

\* The password has been asked for and typed in a run whose stdin, a pipe,
\* had been read into the body before.
C6_Witness ==
    /\ prompted
    /\ pc = "done"
    /\ ~stdin_isatty
    /\ stdinRead
    /\ data = DataStr("S")
    /\ auth.key = <<"a">>
    /\ auth.value = <<"a">>

----------------------------------------------------------------------------
(* C7 *)

FileItems == {j \in 1..Len(items) : items[j].sep = SEP_FILES}

\* _parse_items is over, parse_items having classified every item.
ParseItemsOver == idx > Len(items) /\ pc \notin {"parse_items", "files"}

\* C7: when the items hold more than one '@' item and --form is not set,
\* _parse_items ends in the error 'Only one file can be specified unless
\* --form is used' and no file's content becomes the request body, whatever
\* the keys and paths of the file items.
C7_OneFileWithoutForm ==
    (ParseItemsOver /\ Cardinality(FileItems) > 1 /\ ~form) =>
        (error = ERR_FILES /\ ~bodyFromFile)

----------------------------------------------------------------------------
(* C10 *)

BodySources ==
    {"data" : j \in {j \in 1..Len(items) :
                        items[j].sep \in {SEP_DATA, SEP_DATA_RAW_JSON}}}
    \cup {"file" : j \in {j \in FileItems : ~form}}
    \cup {"stdin" : b \in {b \in {stdin_isatty} : ~b}}

\* C10: a run of parse_args given two or more of {data items, a file item
\* used as body, a stdin that is not a terminal} ends in the error 'Request
\* body (from stdin or a file) and request data (key=value) cannot be mixed';
\* it never gets past the body steps with one source replaced by another,
\* whatever the file and stdin hold.
C10_SingleBodySource ==
    Cardinality(BodySources) >= 2 =>
        /\ pc \notin {"auth", "done", "exit"}
        /\ (pc = "error" /\ idx > Len(items) /\ error # ERR_FILES) => error = ERR_MIXED

====
